---------------------------- MODULE Spec2Model ----------------------------
(***************************************************************************)
(* Model of src/src/app.py: the start-up pipeline that builds the working  *)
(* table merged_df (fetch, normalize_df, merge_and_clean_coordinates,      *)
(* remove_missing_coordinates, fill_missing_values,                        *)
(* extract_year_from_fecha_hecho, drop_fecha_hecho) and the three Dash     *)
(* callbacks that read it (update_map, update_graph_and_table,             *)
(* display_page).                                                          *)
(*                                                                         *)
(* Representation.                                                         *)
(*  - A text is a sequence of one-character strings, so that upper(),      *)
(*    strip(), replace() and unidecode() are computed character by         *)
(*    character as Python computes them.                                   *)
(*  - A float (a coordinate) is a one-element sequence holding its         *)
(*    numeral; the program never computes with coordinates.                *)
(*  - The missing value (NaN / None / NaT / <NA>) is the cell NaN.         *)
(*  - A DataFrame is [columns |-> set of labels, rows |-> sequence of      *)
(*    functions from the labels to cells].                                 *)
(*  - A float quotient a / b * 100 is the exact fraction                   *)
(*    [num |-> a * 100, den |-> b]; den = 0 stands for the NaN (or the     *)
(*    division error) a zero denominator produces.                         *)
(***************************************************************************)
EXTENDS Integers, Sequences, FiniteSets, TLC

VARIABLES
    pc,          \* position in the module-level script, then "serving" or
                 \* "respond" (a callback has returned)
    results,     \* the records the Socrata client returns (line 27)
    df,          \* the incident table (lines 79-83)
    latlong_df,  \* the coordinate reference table (line 87)
    merged_df,   \* the working table (lines 90-102)
    response,    \* what the last callback invocation returned
    norm         \* subject of the normalisation lambdas applied on their own

vars == <<pc, results, df, latlong_df, merged_df, response, norm>>

-----------------------------------------------------------------------------
(* Cells and text                                                          *)

NaN == <<"NaN">>

isna(v) == v = NaN

RECURSIVE SumOver(_, _)
\* Sum of f[x] over the finite set S.
SumOver(f, S) ==
    IF S = {} THEN 0
    ELSE LET x == CHOOSE y \in S : TRUE IN f[x] + SumOver(f, S \ {x})

RECURSIVE Concat(_)
\* Concatenation of a sequence of sequences.
Concat(ss) == IF ss = <<>> THEN <<>> ELSE Head(ss) \o Concat(Tail(ss))

LowerChars ==
    <<"a","b","c","d","e","f","g","h","i","j","k","l","m","n","o","p","q",
      "r","s","t","u","v","w","x","y","z","á","é","í","ó","ú","ñ">>

UpperChars ==
    <<"A","B","C","D","E","F","G","H","I","J","K","L","M","N","O","P","Q",
      "R","S","T","U","V","W","X","Y","Z","Á","É","Í","Ó","Ú","Ñ">>

\* str.upper(), one character.
UpperChar(c) ==
    IF \E i \in DOMAIN LowerChars : LowerChars[i] = c
    THEN UpperChars[CHOOSE i \in DOMAIN LowerChars : LowerChars[i] = c]
    ELSE c

\* str.upper()
Upper(s) == [i \in DOMAIN s |-> UpperChar(s[i])]

AccentedChars == <<"á","é","í","ó","ú","ñ","Á","É","Í","Ó","Ú","Ñ">>

AsciiChars == <<"a","e","i","o","u","n","A","E","I","O","U","N">>

\* unidecode.unidecode(), one character: the ASCII transliteration.
UnidecodeChar(c) ==
    IF \E i \in DOMAIN AccentedChars : AccentedChars[i] = c
    THEN AsciiChars[CHOOSE i \in DOMAIN AccentedChars : AccentedChars[i] = c]
    ELSE c

\* unidecode.unidecode()
Unidecode(s) == [i \in DOMAIN s |-> UnidecodeChar(s[i])]

Whitespace == {" ", "\t", "\n"}

RECURSIVE LStrip(_)
LStrip(s) ==
    IF s # <<>> /\ Head(s) \in Whitespace THEN LStrip(Tail(s)) ELSE s

RECURSIVE RStrip(_)
RStrip(s) ==
    IF s # <<>> /\ s[Len(s)] \in Whitespace
    THEN RStrip(SubSeq(s, 1, Len(s) - 1))
    ELSE s

\* str.strip()
Strip(s) == RStrip(LStrip(s))

StartsWith(s, p) == Len(s) >= Len(p) /\ SubSeq(s, 1, Len(p)) = p

RECURSIVE Replace(_, _, _)
\* str.replace(old, new) for a non-empty old: the non-overlapping
\* occurrences found scanning left to right, in one pass.
Replace(s, old, new) ==
    IF s = <<>> THEN <<>>
    ELSE IF StartsWith(s, old)
         THEN new \o Replace(SubSeq(s, Len(old) + 1, Len(s)), old, new)
         ELSE <<Head(s)>> \o Replace(Tail(s), old, new)

\* Series.replace(to_replace, value): whole-cell matches only.
SeriesReplace(v, to_replace, value) == IF v \in to_replace THEN value ELSE v

\* Series.str.upper().str.strip(): a missing cell stays missing.
StrUpperStrip(v) == IF isna(v) THEN NaN ELSE Strip(Upper(v))

DigitChars == <<"0","1","2","3","4","5","6","7","8","9">>

IsDigit(c) == \E i \in DOMAIN DigitChars : DigitChars[i] = c

DigitVal(c) == (CHOOSE i \in DOMAIN DigitChars : DigitChars[i] = c) - 1

AllDigits(s) == s # <<>> /\ \A i \in DOMAIN s : IsDigit(s[i])

RECURSIVE DigitsToInt(_)
DigitsToInt(s) ==
    IF s = <<>> THEN 0
    ELSE DigitsToInt(SubSeq(s, 1, Len(s) - 1)) * 10 + DigitVal(s[Len(s)])

RECURSIVE IntToStr(_)
\* str() of a non-negative integer.
IntToStr(n) ==
    IF n < 10 THEN <<DigitChars[n + 1]>>
    ELSE IntToStr(n \div 10) \o <<DigitChars[(n % 10) + 1]>>

-----------------------------------------------------------------------------
(* Literals of the source                                                  *)

ALL_CASES == <<"A","l","l"," ","C","a","s","e","s">>

CT_MARKER == <<"(","C","T",")">>

BOGOTA_DC_DOT == <<"B","O","G","O","T","A"," ","D",".","C",".">>

BOGOTA_DC == <<"B","O","G","O","T","A"," ","D",".","C">>

NO_REPOTADO == <<"N","O"," ","R","E","P","O","T","A","D","O">>

NO_REPORTA == <<"N","O"," ","R","E","P","O","R","T","A">>

NO_REPORTADO == <<"N","O"," ","R","E","P","O","R","T","A","D","O">>

No_Reportado == <<"N","o"," ","R","e","p","o","r","t","a","d","o">>

-----------------------------------------------------------------------------
(* DataFrames                                                              *)

DataFrame(columns, rows) == [columns |-> columns, rows |-> rows]

EmptyFrame == DataFrame({}, <<>>)

\* The rows of a frame as a set of positions.
Index(t) == DOMAIN t.rows

\* df.drop(cols, axis=1) / df[[...]]: the frame restricted to `keep`.
Project(t, keep) ==
    DataFrame(keep, [i \in Index(t) |-> [c \in keep |-> t.rows[i][c]]])

\* pd.DataFrame.from_records(list of dicts): the columns are the union of
\* the keys; a record without a key gets a missing cell.
from_records(recs) ==
    LET cols == UNION {DOMAIN recs[i] : i \in DOMAIN recs}
    IN  DataFrame(cols,
                  [i \in DOMAIN recs |->
                      [c \in cols |->
                          IF c \in DOMAIN recs[i] THEN recs[i][c] ELSE NaN]])

\* The columns line 80 selects.
SelectedColumns ==
    {"departamento", "municipio", "codigo_dane", "armas_medios",
     "fecha_hecho", "genero", "cantidad"}

-----------------------------------------------------------------------------
(* normalize_df                                                            *)

\* Line 31, the lambda applied to each departamento cell.
NormalizeDepartamento(x) == Strip(Upper(Unidecode(x)))

\* Lines 32-33: the lambda applied to each municipio cell, then the
\* whole-cell rewrite of 'BOGOTA D.C.'.
NormalizeMunicipio(x) ==
    SeriesReplace(Strip(Replace(Upper(Unidecode(x)), CT_MARKER, <<>>)),
                  {BOGOTA_DC_DOT}, BOGOTA_DC)

\* Lines 34-35.
NormalizeArmasMedios(v) ==
    SeriesReplace(StrUpperStrip(v), {NO_REPOTADO, NO_REPORTA}, NO_REPORTADO)

\* pd.to_datetime(text, errors='coerce'), for the ISO texts the service
\* sends ('YYYY-MM-DD', optionally followed by 'T' and a time): the calendar
\* date as its ten characters, NaT for anything else.  Timestamps cover the
\* years 1678 to 2261.
to_datetime(v) ==
    IF isna(v) \/ Len(v) < 10 THEN NaN
    ELSE IF /\ AllDigits(SubSeq(v, 1, 4)) /\ v[5] = "-"
            /\ AllDigits(SubSeq(v, 6, 7)) /\ v[8] = "-"
            /\ AllDigits(SubSeq(v, 9, 10))
            /\ DigitsToInt(SubSeq(v, 1, 4)) \in 1678..2261
            /\ DigitsToInt(SubSeq(v, 6, 7)) \in 1..12
            /\ DigitsToInt(SubSeq(v, 9, 10)) \in 1..31
            /\ (Len(v) = 10 \/ v[11] = "T")
         THEN SubSeq(v, 1, 10)
         ELSE NaN

\* Line 38: astype(str) turns a missing cell into the text 'nan'.
NormalizeCantidad(v) ==
    Strip(Upper(IF isna(v) THEN <<"n","a","n">> ELSE v))

\* Lines 40-46: the renames, then upper() and '_' -> ' ' on every label.
ColumnLabel(c) ==
    CASE c = "departamento" -> "DEPARTAMENTO"
      [] c = "municipio" -> "MUNICIPIO"
      [] c = "codigo_dane" -> "CODIGO DANE"
      [] c = "armas_medios" -> "ARMAS MEDIOS"
      [] c = "fecha_hecho" -> "FECHA HECHO"
      [] c = "genero" -> "GENERO"
      [] c = "cantidad" -> "CANTIDAD"
      [] OTHER -> c

\* Lines 31-38, one cell of column c.
NormalizeCell(c, v) ==
    CASE c = "departamento" -> NormalizeDepartamento(v)
      [] c = "municipio" -> NormalizeMunicipio(v)
      [] c = "armas_medios" -> NormalizeArmasMedios(v)
      [] c = "fecha_hecho" -> to_datetime(v)
      [] c = "genero" -> StrUpperStrip(v)
      [] c = "cantidad" -> NormalizeCantidad(v)
      [] OTHER -> v

\* unidecode.unidecode() raises on a float: a record without a
\* departamento or municipio aborts normalize_df.
normalize_raises(t) ==
    \E i \in Index(t) :
        isna(t.rows[i]["departamento"]) \/ isna(t.rows[i]["municipio"])

normalize_df(t) ==
    LET labels == {ColumnLabel(c) : c \in t.columns}
        Source(l) == CHOOSE c \in t.columns : ColumnLabel(c) = l
    IN  DataFrame(labels,
                  [i \in Index(t) |->
                      [l \in labels |->
                          NormalizeCell(Source(l), t.rows[i][Source(l)])]])

-----------------------------------------------------------------------------
(* merge_and_clean_coordinates, remove_missing_coordinates                 *)

MergeKeys == {"DEPARTAMENTO", "MUNICIPIO"}

SameKey(l, r) == \A k \in MergeKeys : l[k] = r[k]

\* Series.combine_first: the caller's cell unless it is missing.
combine_first(a, b) == IF isna(a) THEN b ELSE a

\* Line 50: pd.merge(df, latlong_df, on=MergeKeys, how='left',
\* suffixes=(None, '_y')).  Left order is kept; a left row gives one row per
\* matching right row, or one row with missing right cells.
LeftMerge(l, r) ==
    LET overlap == (l.columns \cap r.columns) \ MergeKeys
        RightLabel(c) == IF c \in overlap THEN c \o "_y" ELSE c
        rcols == r.columns \ MergeKeys
        labels == {RightLabel(c) : c \in rcols}
        Source(x) == CHOOSE c \in rcols : RightLabel(c) = x
        cols == l.columns \cup labels
        Joined(lrow, rrow) ==
            [c \in cols |->
                IF c \in l.columns THEN lrow[c] ELSE rrow[Source(c)]]
        Unmatched(lrow) ==
            [c \in cols |-> IF c \in l.columns THEN lrow[c] ELSE NaN]
        RowsFor(lrow) ==
            LET IsMatch(rrow) == SameKey(lrow, rrow)
                m == SelectSeq(r.rows, IsMatch)
            IN  IF m = <<>> THEN <<Unmatched(lrow)>>
                ELSE [j \in DOMAIN m |-> Joined(lrow, m[j])]
    IN  DataFrame(cols, Concat([i \in Index(l) |-> RowsFor(l.rows[i])]))

\* Lines 49-55.
merge_and_clean_coordinates(l, r) ==
    LET m == LeftMerge(l, r)
    IN  IF "LATITUDE_y" \in m.columns /\ "LONGITUDE_y" \in m.columns
        THEN LET keep == m.columns \ {"LATITUDE_y", "LONGITUDE_y"}
             IN  DataFrame(keep,
                     [i \in Index(m) |->
                         [c \in keep |->
                             CASE c = "LATITUDE" ->
                                    combine_first(m.rows[i]["LATITUDE"],
                                                  m.rows[i]["LATITUDE_y"])
                               [] c = "LONGITUDE" ->
                                    combine_first(m.rows[i]["LONGITUDE"],
                                                  m.rows[i]["LONGITUDE_y"])
                               [] OTHER -> m.rows[i][c]]])
        ELSE m

\* dropna(subset=...) with how='all': a row goes only when both are missing.
remove_missing_coordinates_all(t) ==
    LET Keep(r) == ~(isna(r["LATITUDE"]) /\ isna(r["LONGITUDE"]))
    IN  DataFrame(t.columns, SelectSeq(t.rows, Keep))

\* Lines 57-59: dropna(subset=['LATITUDE', 'LONGITUDE']), how='any'.
remove_missing_coordinates(t) ==
    LET Keep(r) == ~isna(r["LATITUDE"]) /\ ~isna(r["LONGITUDE"])
    IN  DataFrame(t.columns, SelectSeq(t.rows, Keep))

-----------------------------------------------------------------------------
(* fill_missing_values, extract_year_from_fecha_hecho, drop_fecha_hecho    *)

\* Lines 61-63.
fill_missing_values(t) ==
    DataFrame(t.columns,
              [i \in Index(t) |->
                  [c \in t.columns |->
                      IF c = "FECHA HECHO" /\ isna(t.rows[i][c])
                      THEN No_Reportado
                      ELSE t.rows[i][c]]])

\* pd.to_datetime(cell, errors='coerce', format='%Y-%m-%d') on a date or on
\* the sentinel text: NaT unless the cell is exactly a calendar date.
to_datetime_ymd(v) == IF ~isna(v) /\ Len(v) = 10 THEN to_datetime(v) ELSE NaN

\* Line 67: dt.year.astype('Int64').astype(str).replace('<NA>', ...).
YearLabel(ts) ==
    IF isna(ts) THEN No_Reportado
    ELSE IntToStr(DigitsToInt(SubSeq(ts, 1, 4)))

\* Lines 65-68.
extract_year_from_fecha_hecho(t) ==
    DataFrame(t.columns \cup {"YEAR"},
              [i \in Index(t) |->
                  [c \in t.columns \cup {"YEAR"} |->
                      CASE c = "FECHA HECHO" ->
                             to_datetime_ymd(t.rows[i]["FECHA HECHO"])
                        [] c = "YEAR" ->
                             YearLabel(to_datetime_ymd(t.rows[i]["FECHA HECHO"]))
                        [] OTHER -> t.rows[i][c]]])

\* Lines 70-72.
drop_fecha_hecho(t) == Project(t, t.columns \ {"FECHA HECHO"})

\* The distinct cells of a column: Series.unique().
Unique(t, col) == {t.rows[i][col] : i \in Index(t)}

\* sorted() of a column's distinct cells raises TypeError when a missing
\* cell (a float) is compared with a text (lines 105-106, 161, 170, 179).
sorted_raises(t, col) == NaN \in Unique(t, col) /\ Unique(t, col) # {NaN}

layout_raises(t) ==
    \E col \in {"DEPARTAMENTO", "YEAR", "MUNICIPIO", "ARMAS MEDIOS"} :
        sorted_raises(t, col)

\* Lines 105-110: the option lists of page 2.
departments == {ALL_CASES} \cup Unique(merged_df, "DEPARTAMENTO")

years == {ALL_CASES} \cup Unique(merged_df, "YEAR")

\* Lines 161, 170, 179: the option lists of page 1.
home_year_options == Unique(merged_df, "YEAR") \cup {ALL_CASES}

home_municipio_options == Unique(merged_df, "MUNICIPIO") \cup {ALL_CASES}

home_armas_medios_options ==
    Unique(merged_df, "ARMAS MEDIOS") \cup {ALL_CASES}

\* Lines 189-196: the radio items of the map.
map_radio_options == {"departments", "municipalities", "none"}

-----------------------------------------------------------------------------
(* Grouping                                                                *)

\* groupby(keys): one group per combination of key cells among the rows
\* with no missing key (dropna=True is the default).
GroupKeys(t, keys) ==
    {[k \in keys |-> t.rows[i][k]] :
        i \in {j \in Index(t) : \A k \in keys : ~isna(t.rows[j][k])}}

\* The rows of group g.
Members(t, keys, g) == {i \in Index(t) : \A k \in keys : t.rows[i][k] = g[k]}

\* .agg(name=(col, 'count')).reset_index(): the non-missing cells of col.
GroupCount(t, keys, col, name) ==
    {g @@ (name :> Cardinality({i \in Members(t, keys, g) :
                                    ~isna(t.rows[i][col])})) :
        g \in GroupKeys(t, keys)}

\* groupby(keys, as_index=False)[col].sum()
GroupSum(t, keys, col) ==
    {g @@ (col :> SumOver([i \in Index(t) |-> t.rows[i][col]],
                          Members(t, keys, g))) :
        g \in GroupKeys(t, keys)}

-----------------------------------------------------------------------------
(* update_map                                                              *)

\* Lines 218-227.
map_filtered(t, year, municipio, armas_medios) ==
    LET Keep(r) ==
            /\ (year # ALL_CASES => r["YEAR"] = year)
            /\ (municipio # ALL_CASES => r["MUNICIPIO"] = municipio)
            /\ (armas_medios # ALL_CASES => r["ARMAS MEDIOS"] = armas_medios)
    IN  DataFrame(t.columns, SelectSeq(t.rows, Keep))

LocationKeys == {"DEPARTAMENTO", "MUNICIPIO", "YEAR"}

\* Lines 229-238: the table the map is drawn from.
aggregated_data(filtered_df) ==
    LET counts == GroupCount(filtered_df,
                             {"DEPARTAMENTO", "MUNICIPIO", "LATITUDE",
                              "LONGITUDE", "GENERO", "YEAR"},
                             "CODIGO DANE", "Total_Cases")
        total_cases_by_location ==
            GroupCount(filtered_df, LocationKeys, "CODIGO DANE",
                       "Total_Cases_By_Location")
        joined ==
            {a @@ b : <<a, b>> \in
                {p \in counts \X total_cases_by_location :
                    \A k \in LocationKeys : p[1][k] = p[2][k]}}
    IN  {r @@ ("% Gender" :>
                [num |-> r["Total_Cases"] * 100,
                 den |-> r["Total_Cases_By_Location"]]) : r \in joined}

\* Lines 217-279: the figure, as its data and its border overlay.
update_map_result(t, year, municipio, map_style, armas_medios) ==
    [data |-> aggregated_data(map_filtered(t, year, municipio, armas_medios)),
     overlay |-> IF map_style \in {"departments", "municipalities"}
                 THEN map_style ELSE "none"]

-----------------------------------------------------------------------------
(* update_graph_and_table                                                  *)

\* Line 353: pd.to_numeric(cell, errors='coerce').fillna(0), for integer
\* numerals with an optional sign; any other text counts 0.
to_numeric_fillna(v) ==
    LET signed == v # <<>> /\ Head(v) \in {"-", "+"}
        digits == IF signed THEN Tail(v) ELSE v
    IN  IF AllDigits(digits)
        THEN IF signed /\ Head(v) = "-"
             THEN 0 - DigitsToInt(digits)
             ELSE DigitsToInt(digits)
        ELSE 0

\* A filter that forgets the department.
graph_filtered_year_only(t, selected_department, selected_year) ==
    LET Keep(r) == selected_year # ALL_CASES => r["YEAR"] = selected_year
        f == SelectSeq(t.rows, Keep)
    IN  DataFrame(t.columns,
            [i \in DOMAIN f |->
                [c \in t.columns |->
                    CASE c = "GENERO" ->
                           SeriesReplace(f[i][c], {NO_REPOTADO, NO_REPORTA},
                                         NO_REPORTADO)
                      [] c = "CANTIDAD" -> to_numeric_fillna(f[i][c])
                      [] OTHER -> f[i][c]]])

\* Lines 343-353: the filtered copy, GENERO coalesced, CANTIDAD numeric.
graph_filtered(t, selected_department, selected_year) ==
    LET Keep(r) ==
            /\ (selected_department # ALL_CASES =>
                    r["DEPARTAMENTO"] = selected_department)
            /\ (selected_year # ALL_CASES => r["YEAR"] = selected_year)
        f == SelectSeq(t.rows, Keep)
    IN  DataFrame(t.columns,
            [i \in DOMAIN f |->
                [c \in t.columns |->
                    CASE c = "GENERO" ->
                           SeriesReplace(f[i][c], {NO_REPOTADO, NO_REPORTA},
                                         NO_REPORTADO)
                      [] c = "CANTIDAD" -> to_numeric_fillna(f[i][c])
                      [] OTHER -> f[i][c]]])

\* The coarse view whenever either filter is 'All Cases'.
coarse_view_selected_either(selected_department, selected_year) ==
    selected_department = ALL_CASES \/ selected_year = ALL_CASES

\* Line 355.
coarse_view_selected(selected_department, selected_year) ==
    selected_department = ALL_CASES /\ selected_year = ALL_CASES

\* No guard against a zero total.
zero_total_unchecked(total_cases) == FALSE

\* Line 376.
zero_total(total_cases) == total_cases = 0

TITLE_ALL == <<"H","o","m","i","c","i","d","e"," ","C","a","s","e","s"," ","b","y"," ","D","e","p","a","r","t","m","e","n","t"," ","(","A","l","l"," ","C","a","s","e","s",")">>

TITLE_GENDER == <<"H","o","m","i","c","i","d","e"," ","C","a","s","e","s"," ","b","y"," ","G","e","n","d","e","r">>

\* Lines 383-387.
pie_title(selected_department, selected_year) ==
    TITLE_GENDER
      \o (IF selected_department # ALL_CASES
          THEN <<" ","i","n"," ">> \o selected_department ELSE <<>>)
      \o (IF selected_year # ALL_CASES
          THEN <<" ","(">> \o selected_year \o <<")">> ELSE <<>>)

\* Lines 368 and 397: drop(['LATITUDE', 'LONGITUDE']).to_dict('records').
table_payload(filtered_df) ==
    Project(filtered_df, filtered_df.columns \ {"LATITUDE", "LONGITUDE"}).rows

\* The result px.pie() with no data and the payload [] (line 377).
EmptyResult == [view |-> "empty", data |-> {}, title |-> <<>>, table |-> <<>>]

\* Lines 341-397: the chart (its kind, data and title) and the table payload.
update_graph_and_table_result(t, selected_department, selected_year) ==
    LET filtered_df == graph_filtered(t, selected_department, selected_year)
    IN  IF coarse_view_selected(selected_department, selected_year)
        THEN [view |-> "bar",
              data |-> GroupSum(filtered_df, {"DEPARTAMENTO"}, "CANTIDAD"),
              title |-> TITLE_ALL,
              table |-> table_payload(filtered_df)]
        ELSE LET municipality_gender_data ==
                     GroupSum(filtered_df, {"GENERO"}, "CANTIDAD")
                 total_cases ==
                     SumOver([g \in municipality_gender_data |-> g["CANTIDAD"]],
                             municipality_gender_data)
             IN  IF zero_total(total_cases)
                 THEN EmptyResult
                 ELSE [view |-> "pie",
                       data |-> {g @@ ("PERCENTAGE" :>
                                         [num |-> g["CANTIDAD"] * 100,
                                          den |-> total_cases]) :
                                    g \in municipality_gender_data},
                       title |-> pie_title(selected_department, selected_year),
                       table |-> table_payload(filtered_df)]

\* Lines 403-407.
display_page_result(tab) ==
    CASE tab = "home" -> "home_layout"
      [] tab = "distribution" -> "distribution_layout"
      [] OTHER -> "None"

-----------------------------------------------------------------------------
(* The module-level script, lines 79-205                                   *)

NoResponse == [callback |-> "none", args |-> <<>>, value |-> <<>>]

NoNorm == [x |-> <<>>, departamento |-> <<>>, municipio |-> <<>>]

\* Lines 79-80: fetch, then select the seven columns (KeyError when the
\* service returned no record carrying one of them).
FetchStep ==
    /\ pc = "fetch"
    /\ IF SelectedColumns \subseteq from_records(results).columns
       THEN /\ df' = Project(from_records(results), SelectedColumns)
            /\ pc' = "normalize"
       ELSE /\ df' = df
            /\ pc' = "crashed"
    /\ UNCHANGED <<results, latlong_df, merged_df, response, norm>>

\* Line 83.
NormalizeStep ==
    /\ pc = "normalize"
    /\ IF normalize_raises(df)
       THEN /\ df' = df
            /\ pc' = "crashed"
       ELSE /\ df' = normalize_df(df)
            /\ pc' = "merge"
    /\ UNCHANGED <<results, latlong_df, merged_df, response, norm>>

\* Line 90.
MergeStep ==
    /\ pc = "merge"
    /\ merged_df' = merge_and_clean_coordinates(df, latlong_df)
    /\ pc' = "dropna"
    /\ UNCHANGED <<results, df, latlong_df, response, norm>>

\* Line 93.
RemoveMissingStep ==
    /\ pc = "dropna"
    /\ merged_df' = remove_missing_coordinates(merged_df)
    /\ pc' = "fillna"
    /\ UNCHANGED <<results, df, latlong_df, response, norm>>

\* Line 96.
FillMissingStep ==
    /\ pc = "fillna"
    /\ merged_df' = fill_missing_values(merged_df)
    /\ pc' = "year"
    /\ UNCHANGED <<results, df, latlong_df, response, norm>>

\* Line 99.
ExtractYearStep ==
    /\ pc = "year"
    /\ merged_df' = extract_year_from_fecha_hecho(merged_df)
    /\ pc' = "dropcol"
    /\ UNCHANGED <<results, df, latlong_df, response, norm>>

\* Line 102.
DropFechaStep ==
    /\ pc = "dropcol"
    /\ merged_df' = drop_fecha_hecho(merged_df)
    /\ pc' = "layout"
    /\ UNCHANGED <<results, df, latlong_df, response, norm>>

\* Lines 105-205 and 282-328: the option lists and the layouts; then the
\* server takes requests.
LayoutStep ==
    /\ pc = "layout"
    /\ pc' = IF layout_raises(merged_df) THEN "crashed" ELSE "serving"
    /\ UNCHANGED <<results, df, latlong_df, merged_df, response, norm>>

-----------------------------------------------------------------------------
(* The callbacks                                                           *)

\* Lines 208-279.
update_map(year, municipio, map_style, armas_medios) ==
    /\ pc = "serving"
    /\ response' =
          [callback |-> "update_map",
           args |-> [year |-> year, municipio |-> municipio,
                     map_style |-> map_style, armas_medios |-> armas_medios],
           value |-> update_map_result(merged_df, year, municipio, map_style,
                                       armas_medios)]
    /\ pc' = "respond"
    /\ UNCHANGED <<results, df, latlong_df, merged_df, norm>>

\* The callback working on the shared table itself instead of a copy: the
\* coalesced GENERO column is written into merged_df.
update_graph_and_table_in_place(selected_department, selected_year) ==
    /\ pc = "serving"
    /\ response' =
          [callback |-> "update_graph_and_table",
           args |-> [selected_department |-> selected_department,
                     selected_year |-> selected_year],
           value |-> update_graph_and_table_result(
                         merged_df, selected_department, selected_year)]
    /\ merged_df' =
          DataFrame(merged_df.columns,
              [i \in Index(merged_df) |->
                  [c \in merged_df.columns |->
                      IF c = "GENERO"
                      THEN SeriesReplace(merged_df.rows[i][c],
                                         {NO_REPOTADO, NO_REPORTA},
                                         NO_REPORTADO)
                      ELSE merged_df.rows[i][c]]])
    /\ pc' = "respond"
    /\ UNCHANGED <<results, df, latlong_df, norm>>

\* Lines 331-397.
update_graph_and_table(selected_department, selected_year) ==
    /\ pc = "serving"
    /\ response' =
          [callback |-> "update_graph_and_table",
           args |-> [selected_department |-> selected_department,
                     selected_year |-> selected_year],
           value |-> update_graph_and_table_result(
                         merged_df, selected_department, selected_year)]
    /\ pc' = "respond"
    /\ UNCHANGED <<results, df, latlong_df, merged_df, norm>>

\* Lines 399-407.
display_page(tab) ==
    /\ pc = "serving"
    /\ response' = [callback |-> "display_page",
                    args |-> [tab |-> tab],
                    value |-> display_page_result(tab)]
    /\ pc' = "respond"
    /\ UNCHANGED <<results, df, latlong_df, merged_df, norm>>

\* The callback has returned: Dash sends the value to the browser and keeps
\* nothing of it; the server waits for the next request.
Deliver ==
    /\ pc = "respond"
    /\ pc' = "serving"
    /\ response' = NoResponse
    /\ UNCHANGED <<results, df, latlong_df, merged_df, norm>>

\* The values of the tabs component (lines 129-132).
tab_values == {"home", "distribution"}

\* A request names values the dropdowns of the built layout offer.
MapRequest ==
    /\ pc = "serving"
    /\ \E year \in home_year_options, municipio \in home_municipio_options,
          map_style \in map_radio_options,
          armas_medios \in home_armas_medios_options :
           update_map(year, municipio, map_style, armas_medios)

GraphRequest ==
    /\ pc = "serving"
    /\ \E selected_department \in departments, selected_year \in years :
           update_graph_and_table(selected_department, selected_year)

PageRequest ==
    /\ pc = "serving"
    /\ \E tab \in tab_values : display_page(tab)

Next ==
    \/ FetchStep
    \/ NormalizeStep
    \/ MergeStep
    \/ RemoveMissingStep
    \/ FillMissingStep
    \/ ExtractYearStep
    \/ DropFechaStep
    \/ LayoutStep
    \/ MapRequest
    \/ GraphRequest
    \/ PageRequest
    \/ Deliver

-----------------------------------------------------------------------------
(* Inputs                                                                  *)

\* The largest number of records the service returns.
MaxRecords == 2

\* A record as sodapy delivers it: a field without a value has no key.
ApiRecord(departamento, municipio, codigo_dane, armas_medios, fecha_hecho, genero, cantidad) ==
    LET full == ("departamento" :> departamento) @@ ("municipio" :> municipio)
                @@ ("codigo_dane" :> codigo_dane)
                @@ ("armas_medios" :> armas_medios)
                @@ ("fecha_hecho" :> fecha_hecho) @@ ("genero" :> genero)
                @@ ("cantidad" :> cantidad)
    IN  [k \in {c \in DOMAIN full : ~isna(full[c])} |-> full[k]]

\* Sequences of 1..n elements of S.
SeqsUpTo(S, n) == UNION {[1..k -> S] : k \in 1..n}

\* Raw place names and the keys they normalise to.
RawPlaces ==
    <<[departamento |-> <<"N","a","r","i","ñ","o">>, municipio |-> <<"P","a","s","t","o"," ","(","C","T",")">>],
      [departamento |-> <<"C","H","O","C","Ó"," ">>, municipio |-> <<" ","q","u","i","b","d","ó">>],
      [departamento |-> <<"M","e","t","a">>, municipio |-> <<"A","c","a","c","í","a","s">>]>>

NARINO == <<"N","A","R","I","N","O">>

PASTO == <<"P","A","S","T","O">>

CHOCO == <<"C","H","O","C","O">>

QUIBDO == <<"Q","U","I","B","D","O">>

\* One entry of Municipios.xlsx.
RefEntry(departamento, municipio, latitude, longitude) ==
    ("DEPARTAMENTO" :> departamento) @@ ("MUNICIPIO" :> municipio)
    @@ ("LATITUDE" :> latitude) @@ ("LONGITUDE" :> longitude)

RefColumns == {"DEPARTAMENTO", "MUNICIPIO", "LATITUDE", "LONGITUDE"}

\* The entries the reference table holds for one place: none, one with
\* both coordinates, one with a single coordinate or with neither, or two.
RefShapes == {"none", "full", "lat", "lon", "empty", "twice"}

RefEntries(departamento, municipio, lat, lon, lat2, lon2, shape) ==
    CASE shape = "none" -> <<>>
      [] shape = "full" -> <<RefEntry(departamento, municipio, lat, lon)>>
      [] shape = "lat" -> <<RefEntry(departamento, municipio, lat, NaN)>>
      [] shape = "lon" -> <<RefEntry(departamento, municipio, NaN, lon)>>
      [] shape = "empty" -> <<RefEntry(departamento, municipio, NaN, NaN)>>
      [] shape = "twice" -> <<RefEntry(departamento, municipio, lat, lon),
                              RefEntry(departamento, municipio, lat2, lon2)>>

RefTable(shape1, shape2) ==
    DataFrame(RefColumns,
        RefEntries(NARINO, PASTO, <<"1.21">>, <<"-77.28">>,
                   <<"1.22">>, <<"-77.29">>, shape1)
        \o RefEntries(CHOCO, QUIBDO, <<"5.69">>, <<"-76.66">>,
                      <<"5.70">>, <<"-76.65">>, shape2))

RefTables == {RefTable(s1, s2) : s1 \in RefShapes, s2 \in RefShapes}

\* Records that differ in what the aggregations read.
AggRecords ==
    {ApiRecord(RawPlaces[p].departamento, RawPlaces[p].municipio, <<"5","2","0","0","1">>,
               <<"V","e","h","i","c","u","l","o">>, <<"2","0","2","1","-","0","6","-","1","5","T","0","0",":","0","0",":","0","0",".","0","0","0">>, genero, cantidad) :
        p \in {1, 2}, genero \in {<<"M","a","s","c","u","l","i","n","o">>, <<"n","o"," ","r","e","p","o","r","t","a"," ">>, NaN},
        cantidad \in {<<"1">>, <<"x">>}}
    \cup
    {ApiRecord(RawPlaces[1].departamento, RawPlaces[1].municipio, NaN,
               <<"n","o"," ","r","e","p","o","t","a","d","o">>, <<"2","0","2","0","-","0","1","-","0","1">>, <<"F","e","m","e","n","i","n","o">>, <<"2">>),
     ApiRecord(RawPlaces[1].departamento, RawPlaces[1].municipio, <<"5","2","0","0","1">>,
               <<" ","m","o","t","o">>, NaN, <<"N","O"," ","R","E","P","O","R","T","A","D","O">>, <<"-","1">>),
     ApiRecord(RawPlaces[2].departamento, RawPlaces[2].municipio, <<"2","7","0","0","1">>,
               NaN, <<"1","5","/","0","6","/","2","0","2","1">>, <<"F","e","m","e","n","i","n","o">>, <<"1">>)}

\* Records that differ in their place, or lack it.
GeoRecords ==
    {ApiRecord(RawPlaces[p].departamento, RawPlaces[p].municipio, <<"5","2","0","0","1">>,
               <<"V","e","h","i","c","u","l","o">>, <<"2","0","2","1","-","0","6","-","1","5","T","0","0",":","0","0",":","0","0",".","0","0","0">>, <<"M","a","s","c","u","l","i","n","o">>, <<"1">>) :
        p \in {1, 2, 3}}
    \cup
    {ApiRecord(NaN, <<"P","a","s","t","o">>, <<"5","2","0","0","1">>, <<"V","e","h","i","c","u","l","o">>,
               <<"2","0","2","1","-","0","6","-","1","5","T","0","0",":","0","0",":","0","0",".","0","0","0">>, <<"M","a","s","c","u","l","i","n","o">>, <<"1">>)}

InitWith(recordSets, refTables) ==
    /\ pc = "fetch"
    /\ results \in recordSets
    /\ df = EmptyFrame
    /\ latlong_df \in refTables
    /\ merged_df = EmptyFrame
    /\ response = NoResponse
    /\ norm = NoNorm

\* Start-up over tables that vary in gender, quantity, weapon and date.
Init ==
    InitWith(SeqsUpTo(AggRecords, MaxRecords) \cup {<<>>},
             {RefTable("full", "full")})

Spec == Init /\ [][Next]_vars

\* Start-up over tables that vary in place, with every reference table.
InitGeo == InitWith(SeqsUpTo(GeoRecords, MaxRecords), RefTables)

SpecGeo == InitGeo /\ [][Next]_vars

-----------------------------------------------------------------------------
(* The three-record scenario                                               *)

ANTIOQUIA == <<"A","N","T","I","O","Q","U","I","A">>

MEDELLIN == <<"M","E","D","E","L","L","I","N">>

BOGOTA == <<"B","O","G","O","T","A">>

MALE == <<"M","A","L","E">>

FEMALE == <<"F","E","M","A","L","E">>

\* Spellings that normalise to BOGOTA / BOGOTA D.C.
ScenarioDepartamentos == {<<"B","o","g","o","t","a">>, <<"B","o","g","o","t","á"," ">>}

ScenarioMunicipios == {<<"B","o","g","o","t","a"," ","D",".","C">>, <<"B","O","G","O","T","A"," ","D",".","C",".">>, <<"B","o","g","o","t","á"," ","D",".","C","."," ","(","C","T",")">>}

ScenarioRecords(departamento, municipio) ==
    <<ApiRecord(departamento, municipio, <<"1","1","0","0","1">>, <<"n","o"," ","r","e","p","o","r","t","a">>,
                <<"2","0","2","1","-","0","6","-","1","5">>, <<"m","a","l","e">>, <<"1">>),
      ApiRecord(departamento, municipio, <<"1","1","0","0","1">>, <<"N","O"," ","R","E","P","O","R","T","A","D","O">>,
                <<"2","0","2","1","-","0","6","-","1","5">>, <<"f","e","m","a","l","e">>, <<"1">>),
      ApiRecord(<<"A","n","t","i","o","q","u","i","a">>, <<"M","e","d","e","l","l","i","n">>, <<"0","5","0","0","1">>, <<"A","R","M","A"," ","D","E"," ","F","U","E","G","O">>,
                <<"2","0","2","0","-","0","3","-","0","1">>, <<"m","a","l","e">>, <<"1">>)>>

ScenarioRef ==
    DataFrame(RefColumns,
        <<RefEntry(BOGOTA, BOGOTA_DC, <<"4.61">>, <<"-74.08">>),
          RefEntry(ANTIOQUIA, MEDELLIN, <<"6.25">>, <<"-75.56">>)>>)

InitScenario ==
    InitWith({ScenarioRecords(d, m) :
                 d \in ScenarioDepartamentos, m \in ScenarioMunicipios},
             {ScenarioRef})

SpecScenario == InitScenario /\ [][Next]_vars

-----------------------------------------------------------------------------
(* merge_and_clean_coordinates on its own                                  *)

\* A normalised incident row of place p, as normalize_df leaves it.
NormalizedRow(p) ==
    normalize_df(Project(from_records(
        <<ApiRecord(RawPlaces[p].departamento, RawPlaces[p].municipio,
                    <<"5","2","0","0","1">>, <<"V","e","h","i","c","u","l","o">>, <<"2","0","2","1","-","0","6","-","1","5">>, <<"M","a","s","c","u","l","i","n","o">>,
                    <<"1">>)>>), SelectedColumns)).rows[1]

NormalizedColumns == {ColumnLabel(c) : c \in SelectedColumns}

\* Incident tables that carry the coordinate columns `extra` themselves.
MergeInputs(extra) ==
    LET cols == NormalizedColumns \cup extra
        Rows == {[c \in cols |-> IF c \in extra THEN coord[c]
                                 ELSE NormalizedRow(p)[c]] :
                    p \in {1, 2, 3},
                    coord \in [extra -> {NaN, <<"9.99">>}]}
    IN  {DataFrame(cols, rows) : rows \in SeqsUpTo(Rows, MaxRecords)}

InitMerge ==
    /\ pc = "merge"
    /\ results = <<>>
    /\ df \in UNION {MergeInputs(extra) :
                        extra \in SUBSET {"LATITUDE", "LONGITUDE"}}
    /\ latlong_df \in RefTables
    /\ merged_df = EmptyFrame
    /\ response = NoResponse
    /\ norm = NoNorm

NextMerge == MergeStep \/ RemoveMissingStep

SpecMerge == InitMerge /\ [][NextMerge]_vars

-----------------------------------------------------------------------------
(* The normalisation lambdas on their own                                  *)

\* The longest input, in pieces, and the number of applications.
MaxPieces == 3

MaxApplications == 2

NormPieces ==
    {<<"(","C">>, <<"(","C","T",")">>, <<"T",")">>, <<" ">>, <<"ó">>, <<"p","a","s","t","o">>, <<"B","O","G","O","T","A"," ","D",".","C">>, <<".">>}

NormInputs ==
    {<<>>} \cup {Concat(ps) : ps \in SeqsUpTo(NormPieces, MaxPieces)}

\* The argument of the next application: the input, or the last result.
Subject(history) ==
    IF history = <<>> THEN norm.x ELSE history[Len(history)]

\* Line 31 applied to the text, or to its own result.
ApplyDepartamento ==
    /\ pc = "norm"
    /\ Len(norm.departamento) < MaxApplications
    /\ norm' = [norm EXCEPT !.departamento =
                   Append(@, NormalizeDepartamento(Subject(@)))]
    /\ UNCHANGED <<pc, results, df, latlong_df, merged_df, response>>

\* Lines 32-33 applied to the text, or to their own result.
ApplyMunicipio ==
    /\ pc = "norm"
    /\ Len(norm.municipio) < MaxApplications
    /\ norm' = [norm EXCEPT !.municipio =
                   Append(@, NormalizeMunicipio(Subject(@)))]
    /\ UNCHANGED <<pc, results, df, latlong_df, merged_df, response>>

InitNorm ==
    /\ pc = "norm"
    /\ results = <<>>
    /\ df = EmptyFrame
    /\ latlong_df = EmptyFrame
    /\ merged_df = EmptyFrame
    /\ response = NoResponse
    /\ norm \in {[x |-> x, departamento |-> <<>>, municipio |-> <<>>] :
                    x \in NormInputs}

NextNorm == ApplyDepartamento \/ ApplyMunicipio

SpecNorm == InitNorm /\ [][NextNorm]_vars

-----------------------------------------------------------------------------
(* Properties                                                              *)

\* A callback has just returned.
Responded(callback) == pc = "respond" /\ response.callback = callback

\* The script is past remove_missing_coordinates.
AfterDrop == pc \in {"fillna", "year", "dropcol", "layout", "serving", "respond"}

HasCoordinates(t) ==
    \A i \in Index(t) :
        ~isna(t.rows[i]["LATITUDE"]) /\ ~isna(t.rows[i]["LONGITUDE"])

\* C1. Row-drop invariant: once remove_missing_coordinates has run, every
\* row of merged_df has a LATITUDE and a LONGITUDE, whatever the incident
\* and reference tables were; so has every row of the filtered views of
\* update_map and update_graph_and_table, and every marker of the map.
C1_RowDropInvariant ==
    /\ AfterDrop => HasCoordinates(merged_df)
    /\ Responded("update_map") =>
          /\ HasCoordinates(map_filtered(merged_df, response.args.year,
                                         response.args.municipio,
                                         response.args.armas_medios))
          /\ \A r \in response.value.data :
                 ~isna(r["LATITUDE"]) /\ ~isna(r["LONGITUDE"])
    /\ Responded("update_graph_and_table") =>
          HasCoordinates(graph_filtered(merged_df,
                                        response.args.selected_department,
                                        response.args.selected_year))

\* C1 witness: the map was drawn from a non-empty working table after a
\* record was dropped whose place has a reference entry with only one of
\* the two coordinates.
C1_Witness ==
    /\ Responded("update_map")
    /\ response.value.data # {}
    /\ \E i \in Index(df), j \in Index(latlong_df) :
           /\ SameKey(df.rows[i], latlong_df.rows[j])
           /\ isna(latlong_df.rows[j]["LATITUDE"])
                  # isna(latlong_df.rows[j]["LONGITUDE"])
    /\ Len(merged_df.rows) < Len(df.rows)

\* C2. Percentage-share sum: in the table update_map draws, the '% Gender'
\* values of the rows of one (DEPARTAMENTO, MUNICIPIO, YEAR) sum to 100,
\* that is, the Total_Cases of its gender sub-groups add up to its
\* Total_Cases_By_Location (the numerators of the shares, which have that
\* total as their common denominator, add up to 100 times it).
C2_PercentageShareSum ==
    Responded("update_map") =>
        \A r \in response.value.data :
            LET same == {s \in response.value.data :
                            \A k \in LocationKeys : s[k] = r[k]}
            IN  SumOver([s \in same |-> s["% Gender"].num], same)
                    = 100 * r["Total_Cases_By_Location"]

\* The rows of merged_df a department and a year filter select.
Matching(selected_department, selected_year) ==
    {i \in Index(merged_df) :
        /\ (selected_department # ALL_CASES =>
                merged_df.rows[i]["DEPARTAMENTO"] = selected_department)
        /\ (selected_year # ALL_CASES =>
                merged_df.rows[i]["YEAR"] = selected_year)}

\* The quantity of row i as a number, and the sum over a set of rows.
Quantity(i) == to_numeric_fillna(merged_df.rows[i]["CANTIDAD"])

QuantitySum(S) == SumOver([i \in Index(merged_df) |-> Quantity(i)], S)

\* The gender of row i, the 'not reported' spellings taken as one.
Gender(i) ==
    IF merged_df.rows[i]["GENERO"] \in {NO_REPOTADO, NO_REPORTA}
    THEN NO_REPORTADO
    ELSE merged_df.rows[i]["GENERO"]

\* The rows of S that have a gender: a row without one is in no group.
Grouped(S) == {i \in S : ~isna(Gender(i))}

\* The coarse view: quantity summed per department.
DepartmentSums ==
    {("DEPARTAMENTO" :> d) @@
     ("CANTIDAD" :> QuantitySum({i \in Index(merged_df) :
                                    merged_df.rows[i]["DEPARTAMENTO"] = d})) :
        d \in {merged_df.rows[i]["DEPARTAMENTO"] : i \in Index(merged_df)}}

\* The detail view over the rows S: quantity summed per gender, and each
\* sum as a share of the total of the sums.
GenderShares(S) ==
    {("GENERO" :> g) @@
     ("CANTIDAD" :> QuantitySum({i \in S : Gender(i) = g})) @@
     ("PERCENTAGE" :>
        [num |-> QuantitySum({i \in S : Gender(i) = g}) * 100,
         den |-> QuantitySum(Grouped(S))]) :
        g \in {Gender(i) : i \in Grouped(S)}}

\* C3 as stated. Category-aggregate mode selection: update_graph_and_table
\* returns the per-department sums exactly when both filters are
\* 'All Cases', and for every other filter combination the detail view:
\* quantity summed per gender over the matching rows, each share being the
\* sum over the filtered total times 100.
C3_Original ==
    Responded("update_graph_and_table") =>
        LET sd == response.args.selected_department
            sy == response.args.selected_year
        IN  IF sd = ALL_CASES /\ sy = ALL_CASES
            THEN /\ response.value.view = "bar"
                 /\ response.value.data = DepartmentSums
            ELSE /\ response.value.view = "pie"
                 /\ response.value.data = GenderShares(Matching(sd, sy))

\* C3 as amended. The per-department sums exactly when both filters are
\* 'All Cases'; for every other combination the explicit empty result when
\* the per-gender sums of the matching rows total zero, and otherwise the
\* detail view: quantity summed per gender over the matching rows (a row
\* without a gender is in no group), each share being the sum over the total
\* of the per-gender sums times 100.
C3_ModeSelection ==
    Responded("update_graph_and_table") =>
        LET sd == response.args.selected_department
            sy == response.args.selected_year
        IN  IF sd = ALL_CASES /\ sy = ALL_CASES
            THEN /\ response.value.view = "bar"
                 /\ response.value.data = DepartmentSums
            ELSE IF QuantitySum(Grouped(Matching(sd, sy))) = 0
                 THEN response.value = EmptyResult
                 ELSE /\ response.value.view = "pie"
                      /\ response.value.data = GenderShares(Matching(sd, sy))

\* C3 witness: a department filter alone returned a detail view of at
\* least two genders.
C3_Witness ==
    /\ Responded("update_graph_and_table")
    /\ response.args.selected_department # ALL_CASES
    /\ response.args.selected_year = ALL_CASES
    /\ response.value.view = "pie"
    /\ Cardinality(response.value.data) >= 2

\* The request of the scenario: department ANTIOQUIA, every year.
AntioquiaRequest ==
    /\ Responded("update_graph_and_table")
    /\ response.args.selected_department = ANTIOQUIA
    /\ response.args.selected_year = ALL_CASES

\* C4 as stated. On the three-record table, department=Antioquia with
\* year='All Cases' yields a single department-sum bar for Antioquia.
C4_Original ==
    AntioquiaRequest =>
        /\ response.value.view = "bar"
        /\ response.value.data =
               {("DEPARTAMENTO" :> ANTIOQUIA) @@ ("CANTIDAD" :> 1)}

\* C4 as amended. On the three-record table, department=Antioquia with
\* year='All Cases' yields the detail view restricted to Antioquia: a gender
\* pie titled 'Homicide Cases by Gender in ANTIOQUIA' whose single slice is
\* MALE with quantity 1 and share 100, and the one Antioquia record as the
\* table payload.
C4_AntioquiaDetailView ==
    AntioquiaRequest =>
        /\ response.value.view = "pie"
        /\ response.value.data =
               {("GENERO" :> MALE) @@ ("CANTIDAD" :> 1) @@
                ("PERCENTAGE" :> [num |-> 100, den |-> 1])}
        /\ response.value.title = TITLE_GENDER \o <<" ","i","n"," ","A","N","T","I","O","Q","U","I","A">>
        /\ Len(response.value.table) = 1
        /\ response.value.table[1]["DEPARTAMENTO"] = ANTIOQUIA
        /\ response.value.table[1]["MUNICIPIO"] = MEDELLIN

\* C4 witness: the request was answered on the three-record working table
\* of the scenario.
C4_Witness ==
    /\ AntioquiaRequest
    /\ [i \in Index(merged_df) |->
           <<merged_df.rows[i]["DEPARTAMENTO"], merged_df.rows[i]["MUNICIPIO"],
             merged_df.rows[i]["YEAR"], merged_df.rows[i]["GENERO"],
             merged_df.rows[i]["CANTIDAD"]>>]
         = <<<<BOGOTA, BOGOTA_DC, <<"2","0","2","1">>, MALE, <<"1">>>>,
             <<BOGOTA, BOGOTA_DC, <<"2","0","2","1">>, FEMALE, <<"1">>>>,
             <<ANTIOQUIA, MEDELLIN, <<"2","0","2","0">>, MALE, <<"1">>>>>>

C6_CoordinatePrecedence ==
    pc = "dropna" =>
        \A n \in Index(merged_df) :
            \E i \in Index(df) :
                LET m == merged_df.rows[n]
                    l == df.rows[i]
                    refs == {j \in Index(latlong_df) :
                                SameKey(l, latlong_df.rows[j])}
                    Expected(c, reference) ==
                        IF c \in df.columns /\ ~isna(l[c])
                        THEN l[c] ELSE reference
                IN  /\ \A c \in df.columns \ {"LATITUDE", "LONGITUDE"} :
                           m[c] = l[c]
                    /\ IF refs = {}
                       THEN /\ m["LATITUDE"] = Expected("LATITUDE", NaN)
                            /\ m["LONGITUDE"] = Expected("LONGITUDE", NaN)
                       ELSE \E j \in refs :
                              /\ m["LATITUDE"] =
                                   Expected("LATITUDE",
                                            latlong_df.rows[j]["LATITUDE"])
                              /\ m["LONGITUDE"] =
                                   Expected("LONGITUDE",
                                            latlong_df.rows[j]["LONGITUDE"])

\* C7. Normalisation idempotence: for every text, the department
\* normalisation applied to its own result gives that result again, and so
\* does the municipality normalisation.
C7_NormalizationIdempotent ==
    pc = "norm" =>
        /\ Len(norm.departamento) >= 2 =>
               norm.departamento[2] = norm.departamento[1]
        /\ Len(norm.municipio) >= 2 => norm.municipio[2] = norm.municipio[1]

\* C8. Base-table immutability: once the server takes requests, no
\* invocation of update_map, update_graph_and_table or display_page changes
\* merged_df - its rows, its columns or any cell.
C8_BaseTableImmutable ==
    [][(pc \in {"serving", "respond"}) => (merged_df' = merged_df)]_vars

\* C8 witness: update_graph_and_table returned a payload in which a row's
\* GENERO was coalesced and its CANTIDAD made a number, while merged_df
\* still holds the stored texts of that row.
C8_Witness ==
    /\ Responded("update_graph_and_table")
    /\ response.args.selected_department = ALL_CASES
    /\ response.args.selected_year = ALL_CASES
    /\ \E i \in Index(merged_df) :
           /\ merged_df.rows[i]["GENERO"] = NO_REPORTA
           /\ merged_df.rows[i]["CANTIDAD"] = <<"1">>
           /\ response.value.table[i]["GENERO"] = NO_REPORTADO
           /\ response.value.table[i]["CANTIDAD"] = 1

SpellingVariants == {NO_REPOTADO, NO_REPORTA}

\* C9. Near-duplicate coalescing precedes every aggregation: in the table
\* update_map groups and in the table update_graph_and_table groups, no
\* ARMAS MEDIOS and no GENERO cell is 'NO REPOTADO' or 'NO REPORTA', and no
\* group of the map carries such a gender.
C9_CoalescedBeforeAggregation ==
    /\ Responded("update_map") =>
          LET f == map_filtered(merged_df, response.args.year,
                                response.args.municipio,
                                response.args.armas_medios)
          IN  /\ \A i \in Index(f) :
                     /\ f.rows[i]["ARMAS MEDIOS"] \notin SpellingVariants
                     /\ f.rows[i]["GENERO"] \notin SpellingVariants
              /\ \A r \in response.value.data :
                     r["GENERO"] \notin SpellingVariants
    /\ Responded("update_graph_and_table") =>
          LET f == graph_filtered(merged_df,
                                  response.args.selected_department,
                                  response.args.selected_year)
          IN  \A i \in Index(f) :
                  /\ f.rows[i]["ARMAS MEDIOS"] \notin SpellingVariants
                  /\ f.rows[i]["GENERO"] \notin SpellingVariants

\* C10. Record multiplicity through the geo-merge: the merge yields one row
\* per incident record, the working table never has more rows than records
\* were fetched, and the Total_Cases of the unfiltered map do not add up to
\* more than the fetched records.
C10_RecordMultiplicity ==
    /\ pc = "dropna" => Len(merged_df.rows) = Len(df.rows)
    /\ AfterDrop => Len(merged_df.rows) <= Len(df.rows)
    /\ Responded("update_map") =>
          SumOver([r \in response.value.data |-> r["Total_Cases"]],
                  response.value.data) <= Len(df.rows)

=============================================================================
